---- MODULE Spec2Model ----
(***************************************************************************)
(* FTMixer-BFSim: the Fourier-transform mixer page.                        *)
(*                                                                         *)
(* The specifications of this module:                                      *)
(*   SpecProc  one ImageProcessor driven call by call (classes/ft_classes) *)
(*   Spec      the page: six viewers, the FTMixer cancel flag, the         *)
(*             start_mixing / check_progress / upload / unify callbacks    *)
(*             and the mix_worker threads (pages/ft_page)                  *)
(*   SpecClear the page with the clear_all callback as well                *)
(*                                                                         *)
(* Arrays are [h, w, px] with px the samples in row-major order.  Image    *)
(* sides are 1 or 2, for which the discrete Fourier transform has the      *)
(* coefficients +1 and -1 only and is computed exactly on integers.        *)
(* Python's None is the empty tuple, a present value x is <<x>>.           *)
(***************************************************************************)
EXTENDS Integers, Sequences, FiniteSets, TLC

None == <<>>
Some(x) == <<x>>
IsNone(o) == o = <<>>
Val(o) == o[1]

(***************************************************************************)
(* numpy arrays                                                            *)
(***************************************************************************)
Arr(h, w, px) == [h |-> h, w |-> w, px |-> px]
ShapeOf(a) == <<a.h, a.w>>
Size(a) == a.h * a.w
\* a[r, c], zero-based as in numpy
At(a, r, c) == a.px[r * a.w + c + 1]

RECURSIVE SumSeq(_)
SumSeq(s) == IF s = <<>> THEN 0 ELSE Head(s) + SumSeq(Tail(s))

RECURSIVE MinSeq(_)
MinSeq(s) == IF Len(s) = 1 THEN s[1]
             ELSE LET m == MinSeq(Tail(s)) IN IF s[1] < m THEN s[1] ELSE m

RECURSIVE MaxSeq(_)
MaxSeq(s) == IF Len(s) = 1 THEN s[1]
             ELSE LET m == MaxSeq(Tail(s)) IN IF s[1] > m THEN s[1] ELSE m

Min2(a, b) == IF a < b THEN a ELSE b
Max2(a, b) == IF a > b THEN a ELSE b

\* np.clip(x, 0, 255) on one sample
Clip255(x) == Max2(0, Min2(255, x))

\* A plausible slip: only the upper end is clipped.
np_clip_upper(a) == Arr(a.h, a.w, [i \in 1..Len(a.px) |-> Min2(255, a.px[i])])

\* np.clip(image, 0, 255)
np_clip(a) == Arr(a.h, a.w, [i \in 1..Len(a.px) |-> Clip255(a.px[i])])

(***************************************************************************)
(* scipy.fft on sides 1 and 2                                              *)
(***************************************************************************)
\* exp(-2 pi i k / 2) = (-1)^k
Sign(k) == IF k % 2 = 0 THEN 1 ELSE -1

\* fft.fft2(a)[u, v]
fft2At(a, u, v) ==
    SumSeq([i \in 1..Size(a) |->
              LET m == (i - 1) \div a.w
                  n == (i - 1) % a.w
              IN  a.px[i] * Sign(u * m + v * n)])

\* fft.fftshift(fft.fft2(a)): the zero frequency moves to index side // 2
fftshift_fft2(a) ==
    Arr(a.h, a.w,
        [i \in 1..Size(a) |->
           LET r == (i - 1) \div a.w
               c == (i - 1) % a.w
           IN  fft2At(a, (r - (a.h \div 2)) % a.h, (c - (a.w \div 2)) % a.w)])

(***************************************************************************)
(* PIL Image.resize(..., LANCZOS) on sides 1 and 2                         *)
(***************************************************************************)
\* One axis of the 8-bit resampler: the same length copies, 1 -> 2 repeats
\* the sample, 2 -> 1 takes both samples with coefficient 1/2 and rounds
\* half up.
ResampleRow(row, n) ==
    IF Len(row) = n THEN row
    ELSE IF n = 2 THEN <<row[1], row[1]>>
    ELSE <<(row[1] + row[2] + 1) \div 2>>

\* horizontal pass, then vertical pass
ResampleH(a, w) ==
    Arr(a.h, w,
        [i \in 1..(a.h * w) |->
           LET r == (i - 1) \div w
               c == (i - 1) % w
           IN  ResampleRow([k \in 1..a.w |-> At(a, r, k - 1)], w)[c + 1]])

ResampleV(a, h) ==
    Arr(h, a.w,
        [i \in 1..(h * a.w) |->
           LET r == (i - 1) \div a.w
               c == (i - 1) % a.w
           IN  ResampleRow([k \in 1..a.h |-> At(a, k - 1, c)], h)[r + 1]])

pil_resize(a, target) == ResampleV(ResampleH(a, target[2]), target[1])

(***************************************************************************)
(* class ImageProcessor                                                    *)
(*                                                                         *)
(* Every method is an operator from the object's fields (and arguments)    *)
(* to [p: the fields afterwards, kind: "value" | "none" | "raise",         *)
(*     val: what is returned].                                             *)
(***************************************************************************)
NewImageProcessor == [image |-> None, fft_result |-> None, shape |-> None]

Outcome(p, kind, val) == [p |-> p, kind |-> kind, val |-> val]

\* contents of an upload: decodable to a grayscale grid, or rejected by the
\* decoder (split / b64decode / Image.open raise before any field is assigned)
load_image(p, content) ==
    IF ~content.ok THEN Outcome(p, "raise", None)
    ELSE LET img == content.img
         IN  Outcome([image |-> Some(img), fft_result |-> None,
                      shape |-> Some(ShapeOf(img))],
                     "value", Some(img))

\* array: None, or [ndim, h, w, px]
\* The fields are assigned one statement at a time; image.min() raises on
\* an array without elements, after image was assigned.
load_from_array(p, array) ==
    IF IsNone(array) THEN Outcome(p, "none", None)
    ELSE IF Val(array).ndim # 2 THEN Outcome(p, "raise", None)
    ELSE LET a  == Arr(Val(array).h, Val(array).w, Val(array).px)
             p1 == [p EXCEPT !.image = Some(a)]
         IN  IF Size(a) = 0 THEN Outcome(p1, "raise", None)
             ELSE LET img == IF MinSeq(a.px) < 0 \/ MaxSeq(a.px) > 255
                             THEN np_clip(a) ELSE a
                  IN  Outcome([image |-> Some(img), fft_result |-> None,
                               shape |-> Some(ShapeOf(img))],
                              "value", Some(img))

\* Image.resize raises on a target without pixels, before any field is
\* assigned.  On an image without pixels (left by a failed load_from_array)
\* the library either raises or hands back a target-sized image; on_empty
\* is that outcome: -1 for the exception, else the sample it fills in.
resize_to(p, target_shape, on_empty) ==
    IF IsNone(p.image) THEN Outcome(p, "none", None)
    ELSE IF target_shape[1] = 0 \/ target_shape[2] = 0
         THEN Outcome(p, "raise", None)
    ELSE IF Size(Val(p.image)) = 0 /\ on_empty = -1
         THEN Outcome(p, "raise", None)
    ELSE LET img == IF Size(Val(p.image)) = 0
                    THEN Arr(target_shape[1], target_shape[2],
                             [i \in 1..(target_shape[1] * target_shape[2]) |-> on_empty])
                    ELSE pil_resize(Val(p.image), target_shape)
         IN  Outcome([image |-> Some(img), fft_result |-> None,
                      shape |-> Some(ShapeOf(img))],
                     "value", Some(img))

\* A plausible slip: the cached transform is shifted again on every access.
compute_fft_reshift(p) ==
    IF IsNone(p.image) THEN Outcome(p, "none", None)
    ELSE IF IsNone(p.fft_result)
         THEN IF Size(Val(p.image)) = 0 THEN Outcome(p, "raise", None)
              ELSE LET f == fftshift_fft2(Val(p.image))
                   IN  Outcome([p EXCEPT !.fft_result = Some(f)], "value", Some(f))
    ELSE LET f == Val(p.fft_result)
             g == Arr(f.h, f.w, [i \in 1..Size(f) |-> f.px[Size(f) + 1 - i]])
         IN  Outcome([p EXCEPT !.fft_result = Some(g)], "value", Some(g))

\* fft2 raises on an array without elements
compute_fft(p) ==
    IF IsNone(p.image) THEN Outcome(p, "none", None)
    ELSE IF IsNone(p.fft_result)
         THEN IF Size(Val(p.image)) = 0 THEN Outcome(p, "raise", None)
              ELSE LET f == fftshift_fft2(Val(p.image))
                   IN  Outcome([p EXCEPT !.fft_result = Some(f)], "value", Some(f))
    ELSE Outcome(p, "value", p.fft_result)

Abs(x) == IF x < 0 THEN -x ELSE x

\* np.abs, np.angle (in units of pi: 0 for x >= 0, 1 for x < 0), np.real,
\* np.imag of a transform whose entries are real
np_abs(f)   == Arr(f.h, f.w, [i \in 1..Size(f) |-> Abs(f.px[i])])
np_angle(f) == Arr(f.h, f.w, [i \in 1..Size(f) |-> IF f.px[i] < 0 THEN 1 ELSE 0])
np_real(f)  == f
np_imag(f)  == Arr(f.h, f.w, [i \in 1..Size(f) |-> 0])

Component(f, name) ==
    CASE name = "get_magnitude" -> np_abs(f)
      [] name = "get_phase"     -> np_angle(f)
      [] name = "get_real"      -> np_real(f)
      [] name = "get_imaginary" -> np_imag(f)

\* get_magnitude / get_phase / get_real / get_imaginary
get_component(p, name) ==
    LET o == compute_fft(p)
    IN  IF o.kind = "value"
        THEN Outcome(o.p, "value", Some(Component(Val(o.val), name)))
        ELSE o

(***************************************************************************)
(* class FTMixer                                                           *)
(*                                                                         *)
(* Weights are whole numbers.  A rectangle holds its four coordinates in   *)
(* hundredths, so x0 = 35 is 0.35.  A blended bin is kept as the exact     *)
(* fraction num / den of its real part; the imaginary part does not reach  *)
(* the real part of the inverse transform on sides 1 and 2.                *)
(***************************************************************************)
\* int(coord * dimension); the float64 product of the coordinates and sides
\* used here has the integer part of the exact product
PixelOf(coord, dim) == (coord * dim) \div 100

\* A plausible slip: the bounds are clamped but not put in order.
region_bounds_unordered(shape, rect) ==
    <<Max2(0, PixelOf(rect.x0, shape[2])), Min2(shape[2], PixelOf(rect.x1, shape[2])),
      Max2(0, PixelOf(rect.y0, shape[1])), Min2(shape[1], PixelOf(rect.y1, shape[1]))>>

\* create_region_mask: the bounds it slices with, <<x0, x1, y0, y1>>
region_bounds(shape, rect) ==
    LET h  == shape[1]
        w  == shape[2]
        x0 == PixelOf(rect.x0, w)
        y0 == PixelOf(rect.y0, h)
        x1 == PixelOf(rect.x1, w)
        y1 == PixelOf(rect.y1, h)
    IN  <<Max2(0, Min2(x0, x1)), Min2(w, Max2(x0, x1)),
          Max2(0, Min2(y0, y1)), Min2(h, Max2(y0, y1))>>

\* A plausible slip: the outer mask is not filled with ones before the
\* rectangle is cleared.
create_region_mask_unfilled(shape, rect, use_inner) ==
    LET b == region_bounds(shape, rect)
    IN  Arr(shape[1], shape[2],
            [i \in 1..(shape[1] * shape[2]) |->
               LET r == (i - 1) \div shape[2]
                   c == (i - 1) % shape[2]
                   inside == b[3] <= r /\ r < b[4] /\ b[1] <= c /\ c < b[2]
               IN  IF use_inner /\ inside THEN 1 ELSE 0])

create_region_mask(shape, rect, use_inner) ==
    LET b == region_bounds(shape, rect)
    IN  Arr(shape[1], shape[2],
            [i \in 1..(shape[1] * shape[2]) |->
               LET r == (i - 1) \div shape[2]
                   c == (i - 1) % shape[2]
                   inside == b[3] <= r /\ r < b[4] /\ b[1] <= c /\ c < b[2]
               IN  IF use_inner THEN (IF inside THEN 1 ELSE 0)
                   ELSE (IF inside THEN 0 ELSE 1)])

\* numpy broadcasting of a source array into the accumulator: a side of the
\* source must equal the accumulator's side or be 1, else += raises
Broadcasts(src_shape, ref_shape) ==
    /\ src_shape[1] \in {1, ref_shape[1]}
    /\ src_shape[2] \in {1, ref_shape[2]}

BAt(f, r, c) == At(f, IF f.h = 1 THEN 0 ELSE r, IF f.w = 1 THEN 0 ELSE c)

\* np.zeros(shape) twice and total_weight = 0
ZeroAcc(shape) ==
    [a |-> [i \in 1..(shape[1] * shape[2]) |-> 0],
     b |-> [i \in 1..(shape[1] * shape[2]) |-> 0],
     total_weight |-> 0]

\* one pass of the loop body of _mix_magnitude_phase / _mix_real_imaginary
\* after the cancel test: a is mixed_magnitude or mixed_real, b is
\* mixed_phase (in units of pi) or mixed_imag
fold_source(acc, f, weight, mode, ref_shape) ==
    LET first  == IF mode = "mag_phase" THEN np_abs(f) ELSE np_real(f)
        second == IF mode = "mag_phase" THEN np_angle(f) ELSE np_imag(f)
        n == ref_shape[1] * ref_shape[2]
    IN  [a |-> [i \in 1..n |->
                  acc.a[i] + weight * BAt(first, (i - 1) \div ref_shape[2],
                                                 (i - 1) % ref_shape[2])],
         b |-> [i \in 1..n |->
                  acc.b[i] + weight * BAt(second, (i - 1) \div ref_shape[2],
                                                  (i - 1) % ref_shape[2])],
         total_weight |-> acc.total_weight + weight]

\* 2 cos(pi p / q) for the angles whose cosine is rational
Cos2(p, q) ==
    CASE p = 0         -> 2
      [] p = q         -> -2
      [] 2 * p = q     -> 0
      [] 3 * p = q     -> 1
      [] 3 * p = 2 * q -> -1

\* A plausible slip: the division by total_weight is not guarded.
blend_unguarded(acc, mode) ==
    LET tw == acc.total_weight
    IN  IF mode = "mag_phase"
        THEN [num |-> [i \in 1..Len(acc.a) |-> acc.a[i] * Cos2(acc.b[i], tw)],
              den |-> 2 * tw]
        ELSE [num |-> acc.a, den |-> tw]

\* the real part of the blended spectrum, bin by bin, as numerators over one
\* denominator: the division by total_weight happens only when it is > 0
blend(acc, mode) ==
    LET tw == acc.total_weight
    IN  IF mode = "mag_phase"
        THEN IF tw > 0
             THEN [num |-> [i \in 1..Len(acc.a) |-> acc.a[i] * Cos2(acc.b[i], tw)],
                   den |-> 2 * tw]
             ELSE [num |-> [i \in 1..Len(acc.a) |-> acc.a[i] * Cos2(acc.b[i] , 1)],
                   den |-> 2]
        ELSE [num |-> acc.a, den |-> IF tw > 0 THEN tw ELSE 1]

\* A plausible slip: the mask is built but the spectrum is left as it was.
apply_region_unmasked(mixed, ref_shape, rect, use_inner) == mixed

\* mixed_fft = mask * mixed_fft, when a rectangle is given
apply_region(mixed, ref_shape, rect, use_inner) ==
    IF IsNone(rect) THEN mixed
    ELSE LET mask == create_region_mask(ref_shape, Val(rect), use_inner)
         IN  [mixed EXCEPT !.num = [i \in 1..Len(mixed.num) |-> mask.px[i] * mixed.num[i]]]

\* A plausible slip: the real part is returned as it is, neither clipped nor
\* cast.
inverse_fft_raw(mixed, ref_shape) ==
    LET h == ref_shape[1]
        w == ref_shape[2]
        unshifted(u, v) == mixed.num[((u + (h \div 2)) % h) * w + ((v + (w \div 2)) % w) + 1]
        pixel(m, n) ==
            SumSeq([i \in 1..(h * w) |->
                      LET u == (i - 1) \div w
                          v == (i - 1) % w
                      IN  unshifted(u, v) * Sign(u * m + v * n)])
    IN  Arr(h, w, [i \in 1..(h * w) |->
                     pixel((i - 1) \div w, (i - 1) % w) \div (mixed.den * h * w)])

\* A plausible slip: the spectrum is inverted without ifftshift.
inverse_fft_uint8_centered(mixed, ref_shape) ==
    LET h == ref_shape[1]
        w == ref_shape[2]
        pixel(m, n) ==
            SumSeq([i \in 1..(h * w) |->
                      LET u == (i - 1) \div w
                          v == (i - 1) % w
                      IN  mixed.num[i] * Sign(u * m + v * n)])
        quant(x) == IF x <= 0 THEN 0 ELSE Min2(255, x \div (mixed.den * h * w))
    IN  Arr(h, w, [i \in 1..(h * w) |-> quant(pixel((i - 1) \div w, (i - 1) % w))])

\* np.real(fft.ifft2(fft.ifftshift(mixed_fft))), clipped to [0, 255] and
\* cast to uint8 (the cast drops the fraction)
inverse_fft_uint8(mixed, ref_shape) ==
    LET h == ref_shape[1]
        w == ref_shape[2]
        unshifted(u, v) == mixed.num[((u + (h \div 2)) % h) * w + ((v + (w \div 2)) % w) + 1]
        pixel(m, n) ==
            SumSeq([i \in 1..(h * w) |->
                      LET u == (i - 1) \div w
                          v == (i - 1) % w
                      IN  unshifted(u, v) * Sign(u * m + v * n)])
        quant(x) == IF x <= 0 THEN 0 ELSE Min2(255, x \div (mixed.den * h * w))
    IN  Arr(h, w, [i \in 1..(h * w) |-> quant(pixel((i - 1) \div w, (i - 1) % w))])

(***************************************************************************)
(* numpy float64 and Python float are IEEE binary64.  The operators below  *)
(* are its arithmetic on values >= 0 in the normal range, every result     *)
(* rounded to nearest, ties to even.  A significand has 53 bits, so whole   *)
(* numbers are kept as sequences of digits in base 2^15, lowest first.     *)
(***************************************************************************)
Base == 32768

RECURSIVE Pow2(_)
Pow2(k) == IF k = 0 THEN 1 ELSE 2 * Pow2(k - 1)

\* drop the zero limbs at the top
RECURSIVE Norm(_)
Norm(a) == IF a = <<>> THEN a
           ELSE IF a[Len(a)] = 0 THEN Norm(SubSeq(a, 1, Len(a) - 1)) ELSE a

Limb(a, i) == IF i <= Len(a) THEN a[i] ELSE 0

RECURSIVE NatOf(_)
NatOf(n) == IF n = 0 THEN <<>> ELSE <<n % Base>> \o NatOf(n \div Base)

RECURSIVE IntOf(_)
IntOf(a) == IF a = <<>> THEN 0 ELSE a[1] + Base * IntOf(Tail(a))

RECURSIVE AddFrom(_, _, _, _)
AddFrom(a, b, i, carry) ==
    IF i > Len(a) /\ i > Len(b)
    THEN (IF carry = 0 THEN <<>> ELSE <<carry>>)
    ELSE LET t == Limb(a, i) + Limb(b, i) + carry
         IN  <<t % Base>> \o AddFrom(a, b, i + 1, t \div Base)
NatAdd(a, b) == AddFrom(a, b, 1, 0)

\* a - b for a >= b
RECURSIVE SubFrom(_, _, _, _)
SubFrom(a, b, i, borrow) ==
    IF i > Len(a) THEN <<>>
    ELSE LET t == Limb(a, i) - Limb(b, i) - borrow
         IN  <<t % Base>> \o SubFrom(a, b, i + 1, IF t < 0 THEN 1 ELSE 0)
NatSub(a, b) == Norm(SubFrom(a, b, 1, 0))

RECURSIVE LessFrom(_, _, _)
LessFrom(a, b, i) ==
    IF i = 0 THEN FALSE
    ELSE IF a[i] # b[i] THEN a[i] < b[i]
    ELSE LessFrom(a, b, i - 1)
NatLess(a, b) ==
    IF Len(a) # Len(b) THEN Len(a) < Len(b) ELSE LessFrom(a, b, Len(a))

\* a * k for 0 <= k < Base
RECURSIVE MulSmallFrom(_, _, _, _)
MulSmallFrom(a, k, i, carry) ==
    IF i > Len(a) THEN (IF carry = 0 THEN <<>> ELSE <<carry>>)
    ELSE LET t == a[i] * k + carry
         IN  <<t % Base>> \o MulSmallFrom(a, k, i + 1, t \div Base)
NatMulSmall(a, k) == Norm(MulSmallFrom(a, k, 1, 0))

ShiftLimbs(a, n) == IF a = <<>> THEN a ELSE [i \in 1..n |-> 0] \o a

RECURSIVE MulFrom(_, _, _)
MulFrom(a, b, i) ==
    IF i > Len(b) THEN <<>>
    ELSE NatAdd(ShiftLimbs(NatMulSmall(a, b[i]), i - 1), MulFrom(a, b, i + 1))
NatMul(a, b) == MulFrom(a, b, 1)

\* a * 2^k
NatShl(a, k) == ShiftLimbs(NatMulSmall(a, Pow2(k % 15)), k \div 15)

RECURSIVE BitLenSmall(_)
BitLenSmall(n) == IF n = 0 THEN 0 ELSE 1 + BitLenSmall(n \div 2)
BitLen(a) == IF a = <<>> THEN 0 ELSE 15 * (Len(a) - 1) + BitLenSmall(a[Len(a)])

\* bit i of a, bit 0 the lowest
Bit(a, i) == (Limb(a, i \div 15 + 1) \div Pow2(i % 15)) % 2

\* floor(a / 2^k)
RECURSIVE ShrFrom(_, _, _)
ShrFrom(a, r, i) ==
    IF i > Len(a) THEN <<>>
    ELSE <<(a[i] \div Pow2(r)) + (Limb(a, i + 1) % Pow2(r)) * Pow2(15 - r)>>
           \o ShrFrom(a, r, i + 1)
NatShr(a, k) ==
    IF k \div 15 >= Len(a) THEN <<>>
    ELSE Norm(ShrFrom(SubSeq(a, k \div 15 + 1, Len(a)), k % 15, 1))

\* some bit of a below bit k is set
RECURSIVE LowBitsSet(_, _)
LowBitsSet(a, k) == IF k = 0 THEN FALSE
                    ELSE Bit(a, k - 1) = 1 \/ LowBitsSet(a, k - 1)

\* long division bit by bit, from bit i of n down; s = <<quotient, remainder>>
DivStep(n, d, i, s) ==
    LET r2 == Norm(AddFrom(NatMulSmall(s[2], 2), NatOf(Bit(n, i)), 1, 0))
    IN  IF NatLess(r2, d) THEN <<NatMulSmall(s[1], 2), r2>>
        ELSE <<NatAdd(NatMulSmall(s[1], 2), <<1>>), NatSub(r2, d)>>
\* the steps for bits hi down to lo
RECURSIVE DivFrom(_, _, _, _, _)
DivFrom(n, d, hi, lo, s) ==
    IF hi < lo THEN s
    ELSE IF Len(s) = 2 THEN DivFrom(n, d, hi - 1, lo, DivStep(n, d, hi, s))
    ELSE s
\* one limb of n at a time, from limb i down
RECURSIVE DivLimbs(_, _, _, _)
DivLimbs(n, d, i, s) ==
    IF i = 0 THEN s
    ELSE IF Len(s) = 2
    THEN DivLimbs(n, d, i - 1, DivFrom(n, d, 15 * i - 1, 15 * (i - 1), s))
    ELSE s
NatDivMod(n, d) == DivLimbs(n, d, Len(n), <<<<>>, <<>>>>)

\* a binary64 value >= 0 is m * 2^e with m = 0 or 2^52 <= m < 2^53
Zero64 == [m |-> <<>>, e |-> 0]

\* round n * 2^e (plus a positive rest below one unit of n when sticky) to
\* the nearest double, ties to even
Round64(n, e, sticky) ==
    LET len == BitLen(n)
    IN  IF len = 0 THEN Zero64
        ELSE IF len <= 53 THEN [m |-> NatShl(n, 53 - len), e |-> e - (53 - len)]
        ELSE LET sh   == len - 53
                 keep == NatShr(n, sh)
                 half == Bit(n, sh - 1) = 1
                 rest == LowBitsSet(n, sh - 1) \/ sticky
                 up   == half /\ (rest \/ Bit(keep, 0) = 1)
                 m    == IF up THEN NatAdd(keep, <<1>>) ELSE keep
             IN  IF BitLen(m) = 54 THEN [m |-> NatShr(m, 1), e |-> e + sh + 1]
                 ELSE [m |-> m, e |-> e + sh]

Float64OfInt(k) == Round64(NatOf(k), 0, FALSE)

\* the double nearest to num / den
Float64OfRatio(num, den) ==
    LET qr == NatDivMod(NatShl(NatOf(num), 75), NatOf(den))
    IN  Round64(qr[1], -75, qr[2] # <<>>)

Mul64(x, y) == Round64(NatMul(x.m, y.m), x.e + y.e, FALSE)

Add64(x, y) ==
    IF x.m = <<>> THEN y
    ELSE IF y.m = <<>> THEN x
    ELSE LET e == IF x.e < y.e THEN x.e ELSE y.e
         IN  Round64(NatAdd(NatShl(x.m, x.e - e), NatShl(y.m, y.e - e)), e, FALSE)

Div64(x, y) ==
    LET qr == NatDivMod(NatShl(x.m, 56), y.m)
    IN  Round64(qr[1], x.e - y.e - 56, qr[2] # <<>>)

\* floor of a double
Floor64(x) ==
    IF x.m = <<>> THEN 0
    ELSE IF x.e >= 0 THEN IntOf(NatShl(x.m, x.e))
    ELSE IntOf(NatShr(x.m, -x.e))

\* one pass of the loop body on arrays of one element; the transform of a
\* one-pixel image is the pixel itself, so its magnitude and its real part
\* are the pixel and its phase and its imaginary part are 0
fold_source64(acc, pixel, weight) ==
    [a |-> Add64(acc.a, Mul64(weight, Float64OfInt(pixel))),
     b |-> Add64(acc.b, Mul64(weight, Zero64)),
     total_weight |-> Add64(acc.total_weight, weight)]

\* the blended bin: both accumulators are divided when total_weight > 0;
\* a * exp(1j * 0) and a + 1j * 0 both have real part a
blend64(acc) ==
    IF acc.total_weight.m # <<>> THEN Div64(acc.a, acc.total_weight) ELSE acc.a

\* ifft2 of one bin is the bin; clip to [0, 255]; astype(np.uint8) drops
\* the fraction
inverse_fft_uint8_64(bin) == Min2(255, Floor64(bin))

(***************************************************************************)
(* SpecProc: one ImageProcessor, called method by method                   *)
(***************************************************************************)
VARIABLES
    ip,         \* the ImageProcessor's fields
    op,         \* the method called last
    ret,        \* [kind, val]: how that call ended and what it returned
    fft_data,   \* the transform compute_fft handed to that call (None otherwise)
    pre,        \* the fields as they were when that call began
    streak,     \* consecutive compute_fft / get_* calls since the last load or resize
    race        \* two threads inside methods of the processor: position and locals

procVars == <<ip, op, ret, fft_data, pre, streak, race>>

MaxStreak == 3

ImgA == Arr(2, 2, <<10, 20, 30, 44>>)
ImgB == Arr(1, 2, <<200, 100>>)

\* what an upload can carry
Contents == {[ok |-> TRUE, img |-> ImgA], [ok |-> TRUE, img |-> ImgB],
             [ok |-> FALSE, img |-> ImgA]}

\* what load_from_array can be handed
Arrays == {None,
           Some([ndim |-> 1, h |-> 1, w |-> 2, px |-> <<1, 2>>]),
           Some([ndim |-> 2, h |-> 0, w |-> 2, px |-> <<>>]),
           Some([ndim |-> 2, h |-> 2, w |-> 1, px |-> <<-5, 300>>]),
           Some([ndim |-> 2, h |-> 2, w |-> 2, px |-> <<0, 255, 7, 7>>])}

Targets == {<<1, 1>>, <<1, 2>>, <<2, 1>>, <<2, 2>>, <<0, 2>>}

OnEmpty == {-1, 0, 255}

ReadOps == {"compute_fft", "get_magnitude", "get_phase", "get_real", "get_imaginary"}
LoadOps == {"load_image", "load_from_array", "resize_to"}

(***************************************************************************)
(* Spec: the page                                                          *)
(***************************************************************************)
VARIABLES
    objects,            \* the ImageProcessor of every ImageViewer ever created
    image_viewers,      \* the dict: viewer id -> the viewer it names now
    cancel_flag,        \* ft_mixer.cancel_flag
    mixing_thread,      \* the global: None (0) or the thread started last
    workers,            \* the mix_worker threads: position, closure and locals
    sm,                 \* the start_mixing callback: position and arguments
    pending_upload,     \* upload_and_display calls the browser has yet to make
    pending_unify,      \* unify_sizes calls the browser has yet to make
    mixing_status,      \* the mixing-status text shown
    interval_disabled,  \* mixing-interval.disabled
    shown,              \* what check_progress drew last
    seen,               \* what update_component read last
    job,                \* per thread: how it ended, what it computed
    written_by,         \* per processor: the thread that assigned its image last
    uploads,            \* files the user has chosen so far
    clicks              \* presses of the mix button so far

pageVars == <<objects, image_viewers, cancel_flag, mixing_thread, workers, sm,
              pending_upload, pending_unify, mixing_status, interval_disabled,
              shown, seen, job, written_by, uploads, clicks>>

(***************************************************************************)
(* SpecMix: FTMixer called directly, one call at a time                    *)
(***************************************************************************)
VARIABLES
    call                \* the FTMixer call made last: its arguments and what it returned

mixVars == <<call>>

vars == <<procVars, pageVars, mixVars>>

NumInputs == 4
NumOutputs == 2

MaxUploads == 2
MaxClicks == 2
MaxClears == 1

InputSlot(i)  == <<"input_0", "input_1", "input_2", "input_3">>[i + 1]
OutputSlot(i) == <<"output_0", "output_1">>[i + 1]
InputSlots  == {InputSlot(i) : i \in 0..(NumInputs - 1)}
OutputSlots == {OutputSlot(i) : i \in 0..(NumOutputs - 1)}
Slots == InputSlots \cup OutputSlots

\* an ImageViewer object: the clear_all round that created it and its id
ObjIds == (0..MaxClears) \X Slots
Threads == 1..MaxClicks

has_image(o) == ~IsNone(objects[o].image)

ThreadAlive(t) == t # 0 /\ workers[t].pc \notin {"unborn", "dead"}

NoWorker ==
    [pc |-> "unborn", procs |-> <<>>, weights |-> <<>>, mode |-> "", rect |-> None,
     use_inner |-> TRUE, output_idx |-> 0, valid |-> <<>>, ref_shape |-> <<0, 0>>,
     k |-> 0, acc |-> ZeroAcc(<<0, 0>>), result |-> None, dest |-> <<0, "">>]

\* no thread is inside a method of the processor
NoRace == [reader |-> [pc |-> "idle", f |-> None],
           writer |-> [pc |-> "idle", img |-> None]]

NoJob == [outcome |-> "none", result |-> None, dest |-> <<0, "">>,
          superseded |-> FALSE, survived_join |-> FALSE]


Init ==
    /\ ip = NewImageProcessor
    /\ op = "__init__"
    /\ ret = [kind |-> "none", val |-> None]
    /\ fft_data = None
    /\ pre = NewImageProcessor
    /\ streak = 0
    /\ race = NoRace
    /\ objects = [o \in ObjIds |-> NewImageProcessor]
    /\ image_viewers = [v \in Slots |-> <<0, v>>]
    /\ cancel_flag = FALSE
    /\ mixing_thread = 0
    /\ workers = [t \in Threads |-> NoWorker]
    /\ sm = [pc |-> "idle", req |-> None]
    /\ pending_upload = [i \in 0..(NumInputs - 1) |-> None]
    /\ pending_unify = 0
    /\ mixing_status = ""
    /\ interval_disabled = TRUE
    /\ shown = None
    /\ seen = None
    /\ job = [t \in Threads |-> NoJob]
    /\ written_by = [o \in ObjIds |-> 0]
    /\ call = None
    /\ uploads = 0
    /\ clicks = 0


Mutated(name, o) ==
    /\ ip' = o.p
    /\ op' = name
    /\ ret' = [kind |-> o.kind, val |-> o.val]
    /\ fft_data' = None
    /\ pre' = ip
    /\ streak' = 0
    /\ UNCHANGED <<race, pageVars, mixVars>>

CallLoadImage ==
    \E content \in Contents : Mutated("load_image", load_image(ip, content))

CallLoadFromArray ==
    \E array \in Arrays : Mutated("load_from_array", load_from_array(ip, array))

CallResizeTo ==
    \E t \in Targets, e \in OnEmpty : Mutated("resize_to", resize_to(ip, t, e))

CallComputeFft ==
    /\ UNCHANGED <<race, pageVars, mixVars>>
    /\ streak < MaxStreak
    /\ LET o == compute_fft(ip)
       IN  /\ ip' = o.p
           /\ ret' = [kind |-> o.kind, val |-> o.val]
           /\ fft_data' = o.val
    /\ op' = "compute_fft"
    /\ pre' = ip
    /\ streak' = streak + 1

CallGetComponent ==
    /\ UNCHANGED <<race, pageVars, mixVars>>
    /\ streak < MaxStreak
    /\ \E name \in ReadOps \ {"compute_fft"} :
         LET o == get_component(ip, name)
         IN  /\ ip' = o.p
             /\ ret' = [kind |-> o.kind, val |-> o.val]
             /\ fft_data' = compute_fft(ip).val
             /\ op' = name
    /\ pre' = ip
    /\ streak' = streak + 1

ProcNext ==
    \/ CallLoadImage
    \/ CallLoadFromArray
    \/ CallResizeTo
    \/ CallComputeFft
    \/ CallGetComponent

\* the inputs the user uploads to, and the file chosen for each
UploadInputs == {0, 1}
FileFor(i) == IF i = 0 THEN [ok |-> TRUE, img |-> ImgB] ELSE [ok |-> TRUE, img |-> ImgA]

\* the viewers whose component selector the user operates
ComponentViewers == {"output_0"}

\* The user picks a file for input i: the browser calls upload_and_display
\* for that viewer and unify_sizes, in no fixed order.  Either callback can
\* be the first to run; the other one is then outstanding.
\* ImageViewer.load_image swallows the decoder's exception.
upload_and_display ==
    /\ UNCHANGED <<procVars, mixVars>>
    /\ \E i \in UploadInputs :
         /\ \/ /\ ~IsNone(pending_upload[i])
               /\ LET o == image_viewers[InputSlot(i)]
                  IN  objects' = [objects EXCEPT
                                    ![o] = load_image(@, Val(pending_upload[i])).p]
               /\ pending_upload' = [pending_upload EXCEPT ![i] = None]
               /\ UNCHANGED <<pending_unify, uploads>>
            \/ /\ uploads < MaxUploads
               /\ IsNone(pending_upload[i])
               /\ LET o == image_viewers[InputSlot(i)]
                  IN  objects' = [objects EXCEPT ![o] = load_image(@, FileFor(i)).p]
               /\ pending_unify' = pending_unify + 1
               /\ uploads' = uploads + 1
               /\ UNCHANGED pending_upload
         /\ UNCHANGED <<written_by, image_viewers, cancel_flag, mixing_thread, workers, sm,
                        mixing_status, interval_disabled, shown, seen, job, clicks>>

\* min over a non-empty set of numbers
MinOf(S) == CHOOSE x \in S : \A y \in S : x <= y

\* With no viewer loaded the callback raises PreventUpdate.  A viewer whose
\* image is set and whose shape is still None makes s[0] raise, before any
\* resize.  ImageViewer.resize_to swallows the resize's own exception.
unify_sizes ==
    /\ UNCHANGED <<procVars, mixVars>>
    /\ \/ /\ pending_unify > 0
          /\ pending_unify' = pending_unify - 1
          /\ UNCHANGED <<pending_upload, uploads>>
       \/ /\ uploads < MaxUploads
          /\ \E i \in UploadInputs :
               /\ IsNone(pending_upload[i])
               /\ pending_upload' = [pending_upload EXCEPT ![i] = Some(FileFor(i))]
          /\ uploads' = uploads + 1
          /\ UNCHANGED pending_unify
    /\ LET loaded == {image_viewers[v] : v \in {u \in Slots : has_image(image_viewers[u])}}
       IN  IF loaded = {} \/ \E o \in loaded : IsNone(objects[o].shape)
           THEN objects' = objects
           ELSE LET target == <<MinOf({Val(objects[o].shape)[1] : o \in loaded}),
                                MinOf({Val(objects[o].shape)[2] : o \in loaded})>>
                IN  objects' = [o \in ObjIds |->
                                  IF o \in loaded
                                  THEN resize_to(objects[o], target, -1).p
                                  ELSE objects[o]]
    /\ written_by' = [o \in ObjIds |->
                        IF objects'[o].image = objects[o].image THEN written_by[o] ELSE 0]
    /\ UNCHANGED <<image_viewers, cancel_flag, mixing_thread, workers, sm,
                   mixing_status, interval_disabled, shown, seen, job, clicks>>

\* get_component_figure: has_image, then the selected component through
\* compute_fft, which fills an absent cache
update_component ==
    /\ UNCHANGED <<procVars, mixVars>>
    /\ \E v \in ComponentViewers :
         LET o == image_viewers[v]
             c == compute_fft(objects[o])
         IN  /\ has_image(o)
             /\ objects' = [objects EXCEPT ![o] = c.p]
             /\ seen' = Some([image |-> objects[o].image, fft |-> c.val])
             /\ UNCHANGED <<written_by, image_viewers, cancel_flag, mixing_thread, workers, sm,
                            pending_upload, pending_unify, mixing_status,
                            interval_disabled, shown, job, uploads, clicks>>

\* six new ImageViewer objects replace the ones the dict named; the upload
\* contents the callback returns make the browser call unify_sizes again
clear_all ==
    /\ UNCHANGED <<procVars, mixVars>>
    /\ image_viewers["input_0"][1] < MaxClears
    /\ image_viewers' = [v \in Slots |-> <<image_viewers[v][1] + 1, v>>]
    /\ mixing_status' = "Cleared"
    /\ pending_unify' = pending_unify + 1
    /\ UNCHANGED <<written_by, objects, cancel_flag, mixing_thread, workers, sm, pending_upload,
                   interval_disabled, shown, seen, job, uploads, clicks>>

(***************************************************************************)
(* start_mixing, mix_worker, check_progress                                *)
(***************************************************************************)
DefaultRect == [x0 |-> 35, y0 |-> 35, x1 |-> 65, y1 |-> 65]
FullRect    == [x0 |-> 0, y0 |-> 0, x1 |-> 100, y1 |-> 100]

\* the State values a press of the mix button can carry
Requests ==
    {[weights |-> <<1, 1, 0, 0>>, mode |-> "mag_phase", region_mode |-> "inner",
      rect |-> FullRect, output_idx |-> 0],
     [weights |-> <<0, 1, 0, 0>>, mode |-> "real_imag", region_mode |-> "outer",
      rect |-> DefaultRect, output_idx |-> 1]}

\* A plausible slip: mix_worker does not call reset_cancel.
reset_cancel_skipped == cancel_flag

\* FTMixer.cancel / FTMixer.reset_cancel
cancel == TRUE
reset_cancel == FALSE

\* A plausible slip: the cancel tests are left out.
is_set_never(flag) == FALSE

\* threading.Event.is_set() on ft_mixer.cancel_flag
is_set(flag) == flag

\* where a mix_worker still has a cancel test of mix_components ahead of it
BeforeLastCheckpoint == {"reset", "fold", "pre_ifft"}

\* line 781: ft_mixer.cancel(), then the callback is at the join
start_mixing ==
    /\ UNCHANGED <<procVars, mixVars>>
    /\ sm.pc = "idle"
    /\ clicks < MaxClicks
    /\ clicks' = clicks + 1
    /\ \E req \in Requests : sm' = [pc |-> "join", req |-> Some(req)]
    /\ cancel_flag' = cancel
    /\ job' = [t \in Threads |->
                 IF workers[t].pc \in BeforeLastCheckpoint
                 THEN [job[t] EXCEPT !.superseded = TRUE] ELSE job[t]]
    /\ UNCHANGED <<written_by, objects, image_viewers, mixing_thread, workers, pending_upload,
                   pending_unify, mixing_status, interval_disabled, shown, seen, uploads>>

\* A plausible slip: join() without the timeout returns only once the thread
\* has ended.
join_without_timeout(alive) == ~alive

\* mixing_thread.join(timeout=0.5) returns when the thread has ended or when
\* the half second is over, whichever comes first
join_returns(alive) == TRUE

\* A plausible slip: the worker writes to the first output whatever was
\* selected.
NewWorker_first_output(req) ==
    [NoWorker EXCEPT
       !.pc = "reset",
       !.procs = [i \in 1..NumInputs |-> image_viewers[InputSlot(i - 1)]],
       !.weights = req.weights,
       !.mode = req.mode,
       !.rect = Some(req.rect),
       !.use_inner = (req.region_mode = "inner"),
       !.output_idx = 0]

\* the worker start_mixing creates: the closure of mix_worker
NewWorker(req) ==
    [NoWorker EXCEPT
       !.pc = "reset",
       !.procs = [i \in 1..NumInputs |-> image_viewers[InputSlot(i - 1)]],
       !.weights = req.weights,
       !.mode = req.mode,
       !.rect = Some(req.rect),
       !.use_inner = (req.region_mode = "inner"),
       !.output_idx = req.output_idx]

\* A plausible slip: the worker is launched whatever the viewers hold.
launch_unchecked(procs) == TRUE

\* line 786: any(image_viewers[f"input_{i}"].has_image() for i in range(4))
any_input_has_image(procs) == \E i \in 1..Len(procs) : has_image(procs[i])

\* lines 782-810: the join, the test for a loaded input, the thread start
start_mixing_launch ==
    /\ UNCHANGED <<procVars, mixVars>>
    /\ sm.pc = "join"
    /\ join_returns(ThreadAlive(mixing_thread))
    /\ sm' = [pc |-> "idle", req |-> None]
    /\ IF ~any_input_has_image([i \in 1..NumInputs |-> image_viewers[InputSlot(i - 1)]])
       THEN /\ mixing_status' = "No input images"
            /\ interval_disabled' = TRUE
            /\ UNCHANGED <<workers, mixing_thread, job>>
       ELSE LET t == CHOOSE u \in Threads : workers[u].pc = "unborn"
                        /\ \A x \in Threads : workers[x].pc = "unborn" => u <= x
            IN  /\ workers' = [workers EXCEPT ![t] = NewWorker(Val(sm.req))]
                /\ mixing_thread' = t
                /\ job' = [x \in Threads |->
                             IF ThreadAlive(x)
                             THEN [job[x] EXCEPT !.survived_join = TRUE]
                             ELSE job[x]]
                /\ mixing_status' = "Mixing..."
                /\ interval_disabled' = FALSE
    /\ UNCHANGED <<written_by, objects, image_viewers, cancel_flag, pending_upload, pending_unify,
                   shown, seen, uploads, clicks>>

\* A plausible slip: the worker's function does not return after its last
\* statement.
Ended_not_returning(t, outcome, result, dest) ==
    /\ workers' = workers
    /\ job' = [job EXCEPT ![t].outcome = outcome, ![t].result = result,
                          ![t].dest = dest]

\* the thread ends: its locals go, how it ended stays
Ended(t, outcome, result, dest) ==
    /\ workers' = [workers EXCEPT ![t] = [NoWorker EXCEPT !.pc = "dead"]]
    /\ job' = [job EXCEPT ![t].outcome = outcome, ![t].result = result,
                          ![t].dest = dest]

\* the positions in processors of the sources that hold an image
RECURSIVE ValidFrom(_, _)
ValidFrom(procs, i) ==
    IF i > Len(procs) THEN <<>>
    ELSE IF has_image(procs[i]) THEN <<i>> \o ValidFrom(procs, i + 1)
    ELSE ValidFrom(procs, i + 1)

\* A plausible slip: the weights are paired with the sources after the
\* sources without image were dropped.
weight_by_position(weights, valid, k) == weights[k]

\* lines 421-422: zip(processors, weights) pairs a source with its weight
\* before the filter
weight_of(weights, valid, k) == weights[valid[k]]

\* the loop at lines 479-488 / 504-513 run from the kth valid source on
RECURSIVE mix_loop(_, _, _, _, _, _, _)
mix_loop(procs, valid, weights, mode, ref_shape, k, acc) ==
    IF k > Len(valid) THEN [kind |-> "value", acc |-> acc, read |-> k - 1]
    ELSE LET c == compute_fft(objects[procs[valid[k]]])
         IN  IF c.kind # "value" THEN [kind |-> "raise", acc |-> acc, read |-> k]
             ELSE IF ~Broadcasts(ShapeOf(Val(c.val)), ref_shape)
             THEN [kind |-> "raise", acc |-> acc, read |-> k]
             ELSE mix_loop(procs, valid, weights, mode, ref_shape, k + 1,
                           fold_source(acc, Val(c.val), weight_of(weights, valid, k),
                                       mode, ref_shape))

\* FTMixer.mix_components run with nothing else running: what it returns,
\* how many sources it accumulated and whether it ran the inverse transform.
\* flag is the value every cancel test reads.
mix_components(procs, weights, mode, rect, use_inner, flag) ==
    LET valid == ValidFrom(procs, 1)
        nothing == [kind |-> "value", val |-> None, folds |-> 0, inverse |-> FALSE]
    IN  IF valid = <<>> THEN nothing
        ELSE LET ref_shape == objects[procs[valid[1]]].shape
             IN  IF IsNone(ref_shape) THEN [nothing EXCEPT !.kind = "raise"]
                 ELSE IF is_set(flag) THEN nothing
                 ELSE LET r == mix_loop(procs, valid, weights, mode, Val(ref_shape), 1,
                                        ZeroAcc(Val(ref_shape)))
                      IN  IF r.kind = "raise" THEN [nothing EXCEPT !.kind = "raise"]
                          ELSE [kind |-> "value",
                                val |-> Some(inverse_fft_uint8(
                                           apply_region(blend(r.acc, mode), Val(ref_shape),
                                                        rect, use_inner),
                                           Val(ref_shape))),
                                folds |-> Len(valid),
                                inverse |-> TRUE]

\* line 797 and lines 421-432: reset_cancel, then valid_data and
\* ref_shape; with no valid source mix_components returns None at once
worker_reset ==
    /\ UNCHANGED <<procVars, mixVars>>
    /\ \E t \in Threads :
         /\ workers[t].pc = "reset"
         /\ cancel_flag' = reset_cancel
         /\ LET valid == ValidFrom(workers[t].procs, 1)
            IN  IF valid = <<>>
                THEN workers' = [workers EXCEPT ![t].pc = "guard", ![t].result = None]
                ELSE LET shape == objects[workers[t].procs[valid[1]]].shape
                     IN  workers' = [workers EXCEPT
                                       ![t].pc = "fold",
                                       ![t].valid = valid,
                                       ![t].ref_shape = shape,
                                       ![t].k = 1]
         /\ UNCHANGED <<written_by, objects, image_viewers, mixing_thread, sm,
                        pending_upload, pending_unify, mixing_status, interval_disabled,
                        shown, seen, job, uploads, clicks>>

\* One pass of the loop at lines 479-488 / 504-513: the cancel test, the
\* two component reads (each through compute_fft) and the accumulation.
\* np.zeros(None) and a source that does not broadcast into the accumulator
\* raise; the exception ends the thread, mix_worker catches nothing.
worker_fold ==
    /\ UNCHANGED <<procVars, mixVars>>
    /\ \E t \in Threads :
         LET w   == workers[t]
             src == w.procs[w.valid[w.k]]
             c   == compute_fft(objects[src])
             acc == IF w.k = 1 THEN ZeroAcc(Val(w.ref_shape)) ELSE w.acc
         IN  /\ w.pc = "fold"
             /\ IF IsNone(w.ref_shape)
                THEN Ended(t, "raised", None, <<0, "">>) /\ UNCHANGED objects
                ELSE IF is_set(cancel_flag)
                THEN /\ workers' = [workers EXCEPT ![t].pc = "guard", ![t].result = None]
                     /\ UNCHANGED <<objects, job>>
                ELSE IF c.kind # "value"
                THEN Ended(t, "raised", None, <<0, "">>) /\ UNCHANGED objects
                ELSE /\ objects' = [objects EXCEPT ![src] = c.p]
                     /\ IF ~Broadcasts(ShapeOf(Val(c.val)), Val(w.ref_shape))
                        THEN Ended(t, "raised", None, <<0, "">>)
                        ELSE /\ workers' = [workers EXCEPT
                                    ![t].acc = fold_source(acc, Val(c.val),
                                                           weight_of(w.weights, w.valid, w.k),
                                                           w.mode, Val(w.ref_shape)),
                                    ![t].k = w.k + 1,
                                    ![t].pc = IF w.k = Len(w.valid)
                                              THEN "pre_ifft" ELSE "fold"]
                             /\ UNCHANGED job
             /\ UNCHANGED <<written_by, image_viewers, cancel_flag, mixing_thread, sm, pending_upload,
                            pending_unify, mixing_status, interval_disabled, shown, seen,
                            uploads, clicks>>

\* lines 490-496 and 446-471: normalise, reconstruct, mask, the cancel test before the
\* inverse transform, the inverse transform
worker_ifft ==
    /\ UNCHANGED <<procVars, mixVars>>
    /\ \E t \in Threads :
         LET w == workers[t]
             mixed == apply_region(blend(w.acc, w.mode), Val(w.ref_shape), w.rect, w.use_inner)
         IN  /\ w.pc = "pre_ifft"
             /\ workers' = [workers EXCEPT
                    ![t].pc = "guard",
                    ![t].result = IF is_set(cancel_flag) THEN None
                                  ELSE Some(inverse_fft_uint8(mixed, Val(w.ref_shape)))]
             /\ UNCHANGED <<written_by, objects, image_viewers, cancel_flag, mixing_thread, sm,
                            pending_upload, pending_unify, mixing_status,
                            interval_disabled, shown, seen, job, uploads, clicks>>

\* lines 800-802 and line 50 of load_from_array: the test of the result
\* and of the flag, the lookup of the output viewer, image assigned
worker_guard ==
    /\ UNCHANGED <<procVars, mixVars>>
    /\ \E t \in Threads :
         LET w == workers[t]
             dest == image_viewers[OutputSlot(w.output_idx)]
         IN  /\ w.pc = "guard"
             /\ IF ~IsNone(w.result) /\ ~is_set(cancel_flag)
                THEN /\ objects' = [objects EXCEPT ![dest].image = w.result]
                     /\ written_by' = [written_by EXCEPT ![dest] = t]
                     /\ workers' = [workers EXCEPT ![t].pc = "load_shape", ![t].dest = dest]
                     /\ UNCHANGED job
                ELSE /\ Ended(t, "cancelled", w.result, <<0, "">>)
                     /\ UNCHANGED <<objects, written_by>>
             /\ UNCHANGED <<image_viewers, cancel_flag, mixing_thread, sm, pending_upload,
                            pending_unify, mixing_status, interval_disabled, shown, seen,
                            uploads, clicks>>

\* line 57 of load_from_array
worker_load_shape ==
    /\ UNCHANGED <<procVars, mixVars>>
    /\ \E t \in Threads :
         LET w == workers[t]
         IN  /\ w.pc = "load_shape"
             /\ objects' = [objects EXCEPT
                    ![w.dest].shape = Some(ShapeOf(Val(objects[w.dest].image)))]
             /\ workers' = [workers EXCEPT ![t].pc = "load_fft"]
             /\ UNCHANGED <<written_by, image_viewers, cancel_flag, mixing_thread, sm, pending_upload,
                            pending_unify, mixing_status, interval_disabled, shown, seen,
                            job, uploads, clicks>>

\* line 58 of load_from_array; the thread ends
worker_load_fft ==
    /\ UNCHANGED <<procVars, mixVars>>
    /\ \E t \in Threads :
         LET w == workers[t]
         IN  /\ w.pc = "load_fft"
             /\ objects' = [objects EXCEPT ![w.dest].fft_result = None]
             /\ Ended(t, "completed", w.result, w.dest)
             /\ UNCHANGED <<written_by, image_viewers, cancel_flag, mixing_thread, sm, pending_upload,
                            pending_unify, mixing_status, interval_disabled, shown, seen,
                            uploads, clicks>>

\* check_progress: with the thread alive nothing is updated; else the
\* selected output viewer decides between Complete and Cancelled
check_progress ==
    /\ UNCHANGED <<procVars, mixVars>>
    /\ ~interval_disabled
    /\ IF ThreadAlive(mixing_thread)
       THEN UNCHANGED <<objects, shown, mixing_status, interval_disabled>>
       ELSE /\ \E output_idx \in 0..(NumOutputs - 1) :
                 LET o == image_viewers[OutputSlot(output_idx)]
                     c == compute_fft(objects[o])
                 IN  IF has_image(o)
                     THEN /\ mixing_status' = "Complete!"
                          /\ objects' = [objects EXCEPT ![o] = c.p]
                          /\ shown' = Some([viewer |-> o, image |-> objects[o].image,
                                             fft |-> c.val])
                     ELSE /\ mixing_status' = "Cancelled"
                          /\ UNCHANGED <<objects, shown>>
            /\ interval_disabled' = TRUE
    /\ UNCHANGED <<written_by, image_viewers, cancel_flag, mixing_thread, workers, sm,
                   pending_upload, pending_unify, seen, job, uploads, clicks>>

Next ==
    \/ upload_and_display
    \/ unify_sizes
    \/ update_component
    \/ start_mixing
    \/ start_mixing_launch
    \/ worker_reset
    \/ worker_fold
    \/ worker_ifft
    \/ worker_guard
    \/ worker_load_shape
    \/ worker_load_fft
    \/ check_progress

\* the page while the clear button is left alone
Spec == Init /\ [][Next]_vars

\* the page with the clear button: uploads, mixes and clears.  The two
\* callbacks that only read the viewers (update_component, check_progress)
\* are left out of this specification.
NextClear ==
    \/ upload_and_display
    \/ unify_sizes
    \/ start_mixing
    \/ start_mixing_launch
    \/ worker_reset
    \/ worker_fold
    \/ worker_ifft
    \/ worker_guard
    \/ worker_load_shape
    \/ worker_load_fft
    \/ clear_all

SpecClear == Init /\ [][NextClear]_vars

\* The callback that runs start_mixing keeps running: its only wait is the
\* join, which the timeout ends.  Nothing is assumed of the workers.
FairSpec == Spec /\ WF_vars(start_mixing_launch)

\* Every mix_worker thread is scheduled again for as long as it is alive.
\* No statement of mix_worker waits for a lock or for another thread, so a
\* live worker always has a step to take, and the weak fairness of its steps
\* reads: again and again, the thread has ended or its state changes.
FairWorkers ==
    /\ Spec
    /\ \A t \in Threads :
          \/ []<>(~ThreadAlive(t))
          \/ []<><<workers'[t] # workers[t]>>_vars

SpecProc == Init /\ [][ProcNext]_vars

(***************************************************************************)
(* SpecRace: one ImageProcessor and two threads.  One calls compute_fft,   *)
(* the other load_from_array or resize_to, as a callback and a mix_worker  *)
(* do on the processor of one viewer.  Nothing locks the processor, so the *)
(* statements of the two calls interleave.                                 *)
(***************************************************************************)
\* the arrays the loading thread is handed: a mix result, or samples to clip
RaceArrays == {Some([ndim |-> 2, h |-> 2, w |-> 1, px |-> <<-5, 300>>]),
               Some([ndim |-> 2, h |-> 2, w |-> 2, px |-> <<0, 255, 7, 7>>])}

RaceTargets == {<<1, 1>>, <<2, 2>>}

RaceFrame == UNCHANGED <<op, ret, fft_data, pre, streak, pageVars, mixVars>>

\* compute_fft is called
reader_call ==
    /\ race.reader.pc = "idle"
    /\ race' = [race EXCEPT !.reader.pc = "line77"]
    /\ UNCHANGED ip
    /\ RaceFrame

\* line 77: if self.image is None: return None
reader_test_image ==
    /\ race.reader.pc = "line77"
    /\ race' = [race EXCEPT !.reader.pc = IF IsNone(ip.image) THEN "idle" ELSE "line79"]
    /\ UNCHANGED ip
    /\ RaceFrame

\* line 79: if self.fft_result is None
reader_test_cache ==
    /\ race.reader.pc = "line79"
    /\ race' = [race EXCEPT !.reader.pc = IF IsNone(ip.fft_result) THEN "line80" ELSE "line81"]
    /\ UNCHANGED ip
    /\ RaceFrame

\* line 80, right-hand side: fft.fftshift(fft.fft2(self.image))
reader_transform ==
    /\ race.reader.pc = "line80"
    /\ race' = [race EXCEPT !.reader.pc = "store",
                            !.reader.f = Some(fftshift_fft2(Val(ip.image)))]
    /\ UNCHANGED ip
    /\ RaceFrame

\* line 80: the assignment to self.fft_result
reader_store ==
    /\ race.reader.pc = "store"
    /\ ip' = [ip EXCEPT !.fft_result = race.reader.f]
    /\ race' = [race EXCEPT !.reader.pc = "line81", !.reader.f = None]
    /\ RaceFrame

\* line 81: return self.fft_result
reader_return ==
    /\ race.reader.pc = "line81"
    /\ race' = [race EXCEPT !.reader.pc = "idle"]
    /\ UNCHANGED ip
    /\ RaceFrame

\* load_from_array is called with a 2-D array: lines 50-55 assign the
\* image, clipped when a sample is out of range
writer_load_from_array ==
    /\ race.writer.pc = "idle"
    /\ \E array \in RaceArrays :
         ip' = [ip EXCEPT !.image = load_from_array(ip, array).p.image]
    /\ race' = [race EXCEPT !.writer.pc = "shape"]
    /\ RaceFrame

\* resize_to is called on a loaded processor: lines 67-70 assign the
\* resized image
writer_resize_to ==
    /\ race.writer.pc = "idle"
    /\ ~IsNone(ip.image)
    /\ \E t \in RaceTargets :
         ip' = [ip EXCEPT !.image = resize_to(ip, t, -1).p.image]
    /\ race' = [race EXCEPT !.writer.pc = "shape"]
    /\ RaceFrame

\* lines 57 / 71: self.shape = self.image.shape
writer_shape ==
    /\ race.writer.pc = "shape"
    /\ ip' = [ip EXCEPT !.shape = Some(ShapeOf(Val(ip.image)))]
    /\ race' = [race EXCEPT !.writer.pc = "cache"]
    /\ RaceFrame

\* lines 58 / 72: self.fft_result = None, and the call returns
writer_reset_cache ==
    /\ race.writer.pc = "cache"
    /\ ip' = [ip EXCEPT !.fft_result = None]
    /\ race' = [race EXCEPT !.writer.pc = "idle"]
    /\ RaceFrame

RaceNext ==
    \/ reader_call
    \/ reader_test_image
    \/ reader_test_cache
    \/ reader_transform
    \/ reader_store
    \/ reader_return
    \/ writer_load_from_array
    \/ writer_resize_to
    \/ writer_shape
    \/ writer_reset_cache

SpecRace == Init /\ [][RaceNext]_vars

(***************************************************************************)
(* SpecMix: the sources are the processors of the input viewers; a caller  *)
(* loads images into them and calls mix_components and create_region_mask  *)
(* with nothing else running.                                              *)
(***************************************************************************)
MaxSide == 2

ImgC == Arr(2, 2, <<0, 255, 255, 0>>)
MixImages == {ImgA, ImgB, ImgC}

\* the sources that get an image; the other two stay without one
MixSources == {0, 1}
processors == [i \in 1..NumInputs |-> <<0, InputSlot(i - 1)>>]

\* weights of the four sources: the blended phase stays an angle whose
\* cosine is rational
MixWeights ==
    {<<a, b, c, c>> : a \in 0..2, b \in 0..2, c \in 0..1}

ZeroAreaRect == [x0 |-> 35, y0 |-> 0, x1 |-> 35, y1 |-> 100]
MixRects == {None, Some(FullRect), Some(DefaultRect), Some(ZeroAreaRect)}

RectCoords == {0, 35, 65, 100}

MixLoad ==
    /\ IsNone(call)
    /\ \E i \in MixSources, img \in MixImages :
         objects' = [objects EXCEPT
                       ![processors[i + 1]] = load_image(@, [ok |-> TRUE, img |-> img]).p]
    /\ UNCHANGED <<procVars, mixVars, image_viewers, cancel_flag, mixing_thread, workers, sm,
                   pending_upload, pending_unify, mixing_status, interval_disabled,
                   shown, seen, job, written_by, uploads, clicks>>

\* the valid sources mix_components read the transform of: compute_fft
\* has filled their caches
SourcesRead(procs, weights, mode) ==
    LET valid == ValidFrom(procs, 1)
    IN  IF valid = <<>> \/ IsNone(objects[procs[valid[1]]].shape) THEN {}
        ELSE LET shape == Val(objects[procs[valid[1]]].shape)
                 r == mix_loop(procs, valid, weights, mode, shape, 1, ZeroAcc(shape))
             IN  {procs[valid[k]] : k \in 1..r.read}

CallMixComponents ==
    /\ IsNone(call)
    /\ \E weights \in MixWeights, mode \in {"mag_phase", "real_imag"},
          rect \in MixRects, use_inner \in BOOLEAN :
         /\ call' = Some([fn |-> "mix_components", weights |-> weights, mode |-> mode,
                          rect |-> rect, use_inner |-> use_inner,
                          out |-> mix_components(processors, weights, mode, rect,
                                                 use_inner, cancel_flag)])
         /\ objects' = [o \in ObjIds |->
                          IF ~is_set(cancel_flag)
                             /\ o \in SourcesRead(processors, weights, mode)
                          THEN compute_fft(objects[o]).p ELSE objects[o]]
    /\ UNCHANGED <<procVars, image_viewers, cancel_flag, mixing_thread, workers, sm,
                   pending_upload, pending_unify, mixing_status, interval_disabled,
                   shown, seen, job, written_by, uploads, clicks>>

CallCreateRegionMask ==
    /\ IsNone(call)
    /\ \E h \in 1..MaxSide, w \in 1..MaxSide, use_inner \in BOOLEAN,
          x0 \in RectCoords, y0 \in RectCoords, x1 \in RectCoords, y1 \in RectCoords :
         LET rect == [x0 |-> x0, y0 |-> y0, x1 |-> x1, y1 |-> y1]
         IN  call' = Some([fn |-> "create_region_mask", shape |-> <<h, w>>, rect |-> rect,
                           use_inner |-> use_inner,
                           out |-> create_region_mask(<<h, w>>, rect, use_inner)])
    /\ UNCHANGED <<procVars, pageVars>>

\* the caller is done with what the call returned
MixReturn ==
    /\ ~IsNone(call)
    /\ call' = None
    /\ UNCHANGED <<procVars, pageVars>>

\* _mix_magnitude_phase / _mix_real_imaginary with the flag clear: the
\* accumulators, the total weight and the blended spectrum
mixed_fft(procs, weights, mode) ==
    LET valid == ValidFrom(procs, 1)
    IN  IF valid = <<>> \/ IsNone(objects[procs[valid[1]]].shape)
        THEN [kind |-> "none", acc |-> ZeroAcc(<<0, 0>>), spectrum |-> None]
        ELSE LET shape == Val(objects[procs[valid[1]]].shape)
                 r == mix_loop(procs, valid, weights, mode, shape, 1, ZeroAcc(shape))
             IN  [kind |-> r.kind, acc |-> r.acc,
                  spectrum |-> IF r.kind = "value" THEN Some(blend(r.acc, mode)) ELSE None]

MixNext ==
    \/ MixLoad
    \/ CallMixComponents
    \/ CallCreateRegionMask
    \/ MixReturn

SpecMix == Init /\ [][MixNext]_vars

\* the caller sets or clears the flag between two calls: FTMixer.cancel,
\* FTMixer.reset_cancel
MixCancel ==
    /\ IsNone(call)
    /\ \/ cancel_flag' = cancel
       \/ cancel_flag' = reset_cancel
    /\ cancel_flag' # cancel_flag
    /\ UNCHANGED <<procVars, mixVars, objects, image_viewers, mixing_thread, workers, sm,
                   pending_upload, pending_unify, mixing_status, interval_disabled,
                   shown, seen, job, written_by, uploads, clicks>>

MixCancelNext == MixNext \/ MixCancel

\* SpecMix with a caller that also cancels
SpecMixCancel == Init /\ [][MixCancelNext]_vars

(***************************************************************************)
(* SpecMix64: mix_components called on sources of one pixel, with the      *)
(* arithmetic numpy does.  A weight is written in hundredths (0.3 is 30)   *)
(* and reaches the code as the double nearest to it.                       *)
(***************************************************************************)
Pixels64 == {0, 3, 100, 255}

\* weights of the two sources that can hold an image, in hundredths
Weights64 == {<<30, 70>>, <<10, 20>>, <<25, 25>>, <<100, 100>>, <<1, 99>>, <<50, 0>>}

\* the Python float a decimal weight is
Weight64(n) == Float64OfRatio(n, 100)

ZeroAcc64 == [a |-> Zero64, b |-> Zero64, total_weight |-> Zero64]

\* the loop at lines 479-488 / 504-513 from the kth valid source on
RECURSIVE mix_loop64(_, _, _, _, _)
mix_loop64(procs, valid, weights, k, acc) ==
    IF k > Len(valid) THEN acc
    ELSE mix_loop64(procs, valid, weights, k + 1,
                    fold_source64(acc, Val(objects[procs[valid[k]]].image).px[1],
                                  Weight64(weight_of(weights, valid, k))))

\* the blended spectrum of one-pixel sources: its single bin
mixed_fft64(procs, weights) ==
    LET valid == ValidFrom(procs, 1)
    IN  IF valid = <<>> THEN None
        ELSE Some(blend64(mix_loop64(procs, valid, weights, 1, ZeroAcc64)))

\* mix_components without region on one-pixel sources
mix_components64(procs, weights) ==
    LET m == mixed_fft64(procs, weights)
    IN  IF IsNone(m) THEN None
        ELSE Some(Arr(1, 1, <<inverse_fft_uint8_64(Val(m))>>))

MixLoad64 ==
    /\ IsNone(call)
    /\ \E i \in MixSources, v \in Pixels64 :
         objects' = [objects EXCEPT
                       ![processors[i + 1]] =
                           load_image(@, [ok |-> TRUE, img |-> Arr(1, 1, <<v>>)]).p]
    /\ UNCHANGED <<procVars, mixVars, image_viewers, cancel_flag, mixing_thread, workers, sm,
                   pending_upload, pending_unify, mixing_status, interval_disabled,
                   shown, seen, job, written_by, uploads, clicks>>

CallMixComponents64 ==
    /\ IsNone(call)
    /\ \E w \in Weights64, mode \in {"mag_phase", "real_imag"} :
         LET weights == <<w[1], w[2], 25, 25>>
         IN  /\ call' = Some([fn |-> "mix_components", weights |-> weights, mode |-> mode,
                              rect |-> None, use_inner |-> TRUE,
                              out |-> mix_components64(processors, weights)])
             /\ objects' = [o \in ObjIds |->
                              IF o \in SourcesRead(processors, weights, mode)
                              THEN compute_fft(objects[o]).p ELSE objects[o]]
    /\ UNCHANGED <<procVars, image_viewers, cancel_flag, mixing_thread, workers, sm,
                   pending_upload, pending_unify, mixing_status, interval_disabled,
                   shown, seen, job, written_by, uploads, clicks>>

Mix64Next ==
    \/ MixLoad64
    \/ CallMixComponents64
    \/ MixReturn

SpecMix64 == Init /\ [][Mix64Next]_vars

(***************************************************************************)
(* Claims settled under Spec                                               *)
(***************************************************************************)
Alive == {t \in Threads : ThreadAlive(t)}

\* C1: with a second job started while the first is Running, once the second
\* has completed the image its output viewer holds is the second job's
\* result, never one the first job assigned afterwards.
C1_LastStartWins ==
    \A t1, t2 \in Threads :
        (/\ t1 < t2
         /\ mixing_thread = t2
         /\ job[t2].outcome = "completed"
         /\ job[t1].survived_join
         /\ written_by[job[t2].dest] = t1)
        => objects[job[t2].dest].image = job[t2].result

\* C2: a job superseded while Running sees the cancellation at its next
\* cancel test: mix_components returns no result, the job loads nothing into
\* the output viewer and does not end as completed.
C2_SupersededIsCancelled ==
    \A t \in Threads :
        job[t].superseded =>
            /\ IsNone(workers[t].result)
            /\ workers[t].pc \notin {"load_shape", "load_fft"}
            /\ job[t].outcome # "completed"
            /\ IsNone(job[t].result)

\* C3: at most one mix_worker thread is alive in any reachable state.
C3_SingleFlight == Cardinality(Alive) <= 1

\* C4: what update_component reads from an output viewer is never a
\* partially written result: the transform it gets is the transform of the
\* image it gets.
C4_NoPartialResult ==
    ~IsNone(seen) =>
        Val(seen).fft = Some(fftshift_fft2(Val(Val(seen).image)))

\* C5: when the latest worker ended by an exception, the poll that finds the
\* thread ended reports Failed.
C5_FaultReportedFailed ==
    \A t \in Threads :
        (/\ mixing_thread = t
         /\ job[t].outcome = "raised"
         /\ interval_disabled)
        => mixing_status = "Failed"

\* C6: a press of the mix button with no input image loaded is answered with
\* "No input images" by the callback itself: no worker is started, no viewer
\* is modified and the poll stays disabled; and mix_components called on
\* those sources returns None with no accumulation and no inverse transform.
C6_NoInputRejected ==
    [][(/\ sm.pc = "join"
        /\ sm'.pc = "idle"
        /\ \A i \in 0..(NumInputs - 1) : ~has_image(image_viewers[InputSlot(i)]))
       => /\ mixing_status' = "No input images"
          /\ interval_disabled'
          /\ workers' = workers
          /\ mixing_thread' = mixing_thread
          /\ objects' = objects
          /\ \A req \in Requests, flag \in BOOLEAN :
                mix_components([i \in 1..NumInputs |-> image_viewers[InputSlot(i - 1)]],
                               req.weights, req.mode, Some(req.rect),
                               req.region_mode = "inner", flag)
                  = [kind |-> "value", val |-> None, folds |-> 0, inverse |-> FALSE]
      ]_vars

\* a press answered with "No input images" while nothing was ever started
C6_Witness ==
    /\ mixing_status = "No input images"
    /\ sm.pc = "idle"
    /\ clicks >= 1
    /\ interval_disabled
    /\ \A t \in Threads : workers[t].pc = "unborn"
    /\ \A o \in ObjIds : ~has_image(o)

\* C7: start_mixing, once at its join, returns, also when the worker
\* started before never sees the cancellation and never ends; and a poll is
\* never held up by a worker that is alive.
C7_StartMixingReturns ==
    /\ (sm.pc = "join") ~> (sm.pc = "idle")
    /\ [](~interval_disabled => ENABLED check_progress)

\* start_mixing has returned with its worker started while the worker
\* started before is still alive
C7_Witness ==
    /\ sm.pc = "idle"
    /\ \E t \in Threads :
          /\ t # mixing_thread
          /\ ThreadAlive(t)
          /\ job[t].survived_join
          /\ ThreadAlive(mixing_thread)

\* C11: mix_components reads the cancel flag before each valid source is
\* accumulated and once more right before the inverse transform.  A read
\* that sees the flag set ends the call with no result, with no further
\* accumulation and no inverse transform; a pass whose read sees it clear
\* accumulates its source, and the last read seeing it clear yields the
\* finished image.
C11_Checkpoints ==
    [][\A t \in Threads :
         LET w == workers[t]
             v == workers'[t]
         IN  /\ (w.pc = "fold" /\ v # w /\ ~IsNone(w.ref_shape) /\ cancel_flag)
                  => v = [w EXCEPT !.pc = "guard", !.result = None]
             /\ (w.pc = "fold" /\ v # w /\ ~IsNone(w.ref_shape) /\ ~cancel_flag)
                  => \/ v.pc = "dead" /\ job'[t].outcome = "raised"
                     \/ /\ v.k = w.k + 1
                        /\ v.acc.total_weight =
                             (IF w.k = 1 THEN 0 ELSE w.acc.total_weight)
                               + w.weights[w.valid[w.k]]
                        /\ v.pc = IF w.k = Len(w.valid) THEN "pre_ifft" ELSE "fold"
             /\ (w.pc = "pre_ifft" /\ v # w /\ cancel_flag)
                  => v = [w EXCEPT !.pc = "guard", !.result = None]
             /\ (w.pc = "pre_ifft" /\ v # w /\ ~cancel_flag)
                  => /\ v.pc = "guard"
                     /\ v.result = Some(inverse_fft_uint8(
                                      apply_region(blend(w.acc, w.mode), Val(w.ref_shape),
                                                   w.rect, w.use_inner),
                                      Val(w.ref_shape)))
             /\ (w.pc = "guard" /\ IsNone(w.result) /\ v # w) => v.pc = "dead"
      ]_vars

\* a worker that accumulated both its sources and whose read before the
\* inverse transform saw the flag set
C11_Witness ==
    \E t \in Threads :
        /\ workers[t].pc = "guard"
        /\ IsNone(workers[t].result)
        /\ Len(workers[t].valid) = 2
        /\ workers[t].k = 3

\* C21: a poll that finds the current worker alive updates nothing, and the
\* status reads "Complete!" only when the job started last ran to
\* completion and wrote its result.
C21_CompleteMeansCompleted ==
    mixing_status = "Complete!" =>
        /\ mixing_thread # 0
        /\ job[mixing_thread].outcome = "completed"

\* a start_mixing call made after thread t was started: it is at its join,
\* or it has started a later thread
StartedAfter(t) == sm.pc = "join" \/ mixing_thread > t

\* C22: a worker that has run its reset_cancel finds the flag set only when
\* a start_mixing call made after its own start has set it, and a worker
\* ends as cancelled only then: a cancel signalled before the worker was
\* started never cancels it.
C22_NoStaleCancel ==
    \A t \in Threads :
        /\ (workers[t].pc \in {"fold", "pre_ifft", "guard"} /\ is_set(cancel_flag))
            => StartedAfter(t)
        /\ job[t].outcome = "cancelled" => StartedAfter(t)

\* the only press of the button set the flag, and the worker it started
\* ran to completion
C22_Witness ==
    /\ clicks = 1
    /\ sm.pc = "idle"
    /\ mixing_thread = 1
    /\ job[1].outcome = "completed"

\* C25: whenever a worker is about to read a source, the sources it was
\* given that hold an image all have one shape.
C25_SourcesShareShape ==
    \A t \in Threads :
        workers[t].pc = "fold" =>
            \A i, j \in 1..NumInputs :
                (has_image(workers[t].procs[i]) /\ has_image(workers[t].procs[j]))
                => objects[workers[t].procs[i]].shape = objects[workers[t].procs[j]].shape

\* C29: a mix is delivered to the output slot selected in the press that
\* started it.  The worker keeps that selection for as long as it lives,
\* whatever a later press selects; its write goes to the viewer in that
\* slot and the job is recorded there; the steps of its load_from_array
\* leave the viewer of the other output slot as it was.
C29_DeliveredToSelectedSlot ==
    [][\A t \in Threads :
         LET w == workers[t]
             slot == OutputSlot(w.output_idx)
         IN  /\ (w.pc = "unborn" /\ workers'[t].pc = "reset")
                 => workers'[t].output_idx = Val(sm.req).output_idx
             /\ (ThreadAlive(t) /\ workers'[t].pc \notin {"unborn", "dead"})
                 => workers'[t].output_idx = w.output_idx
             /\ (w.pc = "guard" /\ workers'[t].pc = "load_shape")
                 => /\ workers'[t].dest = image_viewers[slot]
                    /\ objects'[image_viewers[slot]].image = w.result
             /\ (w.pc \in {"guard", "load_shape", "load_fft"} /\ workers'[t] # w)
                 => \A s \in OutputSlots \ {slot} :
                        objects'[image_viewers[s]] = objects[image_viewers[s]]
             /\ (job[t].outcome = "none" /\ job'[t].outcome = "completed")
                 => job'[t].dest = image_viewers[slot]
      ]_vars

\* a worker started for output 1 is inside its load_from_array on that
\* viewer when the button is pressed again with output 0 selected
C29_Witness ==
    /\ sm.pc = "join"
    /\ Val(sm.req).output_idx = 0
    /\ workers[1].pc = "load_fft"
    /\ workers[1].output_idx = 1
    /\ workers[1].dest = image_viewers["output_1"]
    /\ has_image(image_viewers["output_1"])
    /\ ~has_image(image_viewers["output_0"])

(***************************************************************************)
(* Claims settled under FairWorkers                                        *)
(***************************************************************************)
\* where a live worker can be: each is the guard of one worker action
WorkerSteps == {"reset", "fold", "pre_ifft", "guard", "load_shape", "load_fft"}

\* C23: every started worker ends, with exactly one of the outcomes
\* completed (it had assigned its result), cancelled (it assigned nothing)
\* and raised, whether or not the flag was ever set for it; once it has
\* ended, neither the thread nor the record of how it ended changes again.
C23_WorkerTerminates ==
    /\ [](\A t \in Threads : ThreadAlive(t) => workers[t].pc \in WorkerSteps)
    /\ \A t \in Threads :
          (workers[t].pc # "unborn")
            ~> (workers[t].pc = "dead"
                /\ job[t].outcome \in {"completed", "cancelled", "raised"})
    /\ [][\A t \in Threads :
            /\ workers[t].pc = "dead" => (workers'[t] = workers[t] /\ job'[t] = job[t])
            /\ job'[t].outcome # job[t].outcome
               => /\ job[t].outcome = "none"
                  /\ workers'[t].pc = "dead"
                  /\ job'[t].outcome = "completed"
                     => (workers[t].pc = "load_fft" /\ ~IsNone(job'[t].result))
                  /\ job'[t].outcome = "cancelled"
                     => (workers[t].pc = "guard" /\ objects' = objects)
       ]_vars

\* one worker has ended as cancelled, the other as completed
C23_Witness ==
    /\ job[1].outcome = "cancelled"
    /\ job[2].outcome = "completed"
    /\ workers[1].pc = "dead"
    /\ workers[2].pc = "dead"

(***************************************************************************)
(* Claims settled under SpecClear                                          *)
(***************************************************************************)
\* no viewer the dict names holds an image
AllEmpty == \A v \in Slots : ~has_image(image_viewers[v])

\* the clear_all round of the viewers the dict names
Round == image_viewers["input_0"][1]

\* C27: after clear_all the six viewers hold no image, and they stay empty
\* until an upload loads one or a worker started after the clear writes
\* one: a worker that was in flight when the button was pressed writes
\* nothing into them.
C27_ClearIsFullReset ==
    /\ [][image_viewers' # image_viewers => AllEmpty']_vars
    /\ [][(AllEmpty /\ ~AllEmpty')
          => \/ uploads' # uploads
             \/ pending_upload' # pending_upload
             \/ \E t \in Threads :
                   /\ workers[t].pc = "guard"
                   /\ workers'[t].pc = "load_shape"
                   /\ workers[t].procs[1][1] = Round
         ]_vars

\* the step in which start_mixing returns "No input images"
Rejects ==
    /\ sm.pc = "join"
    /\ sm'.pc = "idle"
    /\ \A i \in 0..(NumInputs - 1) : ~has_image(image_viewers[InputSlot(i)])

\* C30: a start_mixing call that finds no input image has set the cancel
\* flag, and when it returns the flag is set, no thread has been created,
\* no job has changed and mixing_thread is the thread it was.
C30_RejectedStartStillCancels ==
    /\ [][(sm.pc = "idle" /\ sm'.pc = "join") => is_set(cancel_flag')]_vars
    /\ [][Rejects => /\ is_set(cancel_flag')
                     /\ workers' = workers
                     /\ job' = job
                     /\ mixing_thread' = mixing_thread
         ]_vars

(***************************************************************************)
(* Claims settled under SpecMix                                            *)
(***************************************************************************)
MixCalled == ~IsNone(call) /\ Val(call).fn = "mix_components"
MaskCalled == ~IsNone(call) /\ Val(call).fn = "create_region_mask"

AnyWeights == [1..NumInputs -> 0..2]

\* C12: the weight given to a source without image does not matter: any
\* weights that agree with the call's on the sources holding an image give
\* the same accumulators, total weight, blended spectrum and result.
C12_EmptySourcesIgnored ==
    MixCalled =>
        \A ws \in AnyWeights :
            (\A i \in 1..NumInputs : has_image(processors[i]) => ws[i] = Val(call).weights[i])
            => /\ mixed_fft(processors, ws, Val(call).mode)
                    = mixed_fft(processors, Val(call).weights, Val(call).mode)
               /\ mix_components(processors, ws, Val(call).mode, Val(call).rect,
                                 Val(call).use_inner, FALSE) = Val(call).out

\* a finished mix of one loaded source, called with weight 2 for an empty
\* source listed before it
C12_Witness ==
    /\ MixCalled
    /\ ~has_image(processors[1])
    /\ has_image(processors[2])
    /\ Val(call).weights = <<2, 1, 1, 1>>
    /\ ~IsNone(Val(call).out.val)

\* the sources holding an image, and whether each of them adds into the
\* accumulator of the first one's shape
ValidSources == {i \in 1..NumInputs : has_image(processors[i])}
SourcesFit ==
    /\ ValidSources # {}
    /\ LET first == CHOOSE i \in ValidSources : \A j \in ValidSources : i <= j
       IN  \A i \in ValidSources :
               Broadcasts(Val(objects[processors[i]].shape),
                          Val(objects[processors[first]].shape))

\* C13: when every source holding an image has weight 0, in both modes the
\* accumulators and the total weight stay zero, the blended spectrum is
\* zero over a non-zero denominator (nothing was divided by zero), and the
\* call returns an all-zero image.
C13_ZeroTotalWeight ==
    (/\ MixCalled
     /\ SourcesFit
     /\ \A i \in ValidSources : Val(call).weights[i] = 0)
    => LET m == mixed_fft(processors, Val(call).weights, Val(call).mode)
           out == Val(call).out
       IN  /\ m.kind = "value"
           /\ m.acc.total_weight = 0
           /\ \A i \in 1..Len(m.acc.a) : m.acc.a[i] = 0 /\ m.acc.b[i] = 0
           /\ Val(m.spectrum).den # 0
           /\ \A i \in 1..Len(Val(m.spectrum).num) : Val(m.spectrum).num[i] = 0
           /\ out.kind = "value"
           /\ ~IsNone(out.val)
           /\ \A i \in 1..Size(Val(out.val)) : Val(out.val).px[i] = 0

\* two loaded sources, both with weight 0, mixed by magnitude and phase
C13_Witness ==
    /\ MixCalled
    /\ ValidSources = {1, 2}
    /\ SourcesFit
    /\ Val(call).weights = <<0, 0, 1, 1>>
    /\ Val(call).mode = "mag_phase"
    /\ IsNone(Val(call).rect)
    /\ Val(call).out.val = Some(Arr(2, 2, <<0, 0, 0, 0>>))

\* the cells of the pixel rectangle a mask call was given: rows y0..y1-1 and
\* columns x0..x1-1 of the converted coordinates, put in order
InRect(shape, rect, r, c) ==
    LET xa == PixelOf(rect.x0, shape[2])
        xb == PixelOf(rect.x1, shape[2])
        ya == PixelOf(rect.y0, shape[1])
        yb == PixelOf(rect.y1, shape[1])
    IN  /\ Min2(xa, xb) <= c /\ c < Max2(xa, xb)
        /\ Min2(ya, yb) <= r /\ r < Max2(ya, yb)

\* C15: the mask create_region_mask returns has the shape asked for; with
\* use_inner it is 1 exactly at the cells inside the pixel rectangle and 0
\* elsewhere, with outer polarity 0 exactly inside and 1 elsewhere; the
\* mask of the other polarity is its cell-wise complement.
C15_MaskPolarity ==
    MaskCalled =>
        LET c == Val(call)
            other == create_region_mask(c.shape, c.rect, ~c.use_inner)
        IN  /\ ShapeOf(c.out) = c.shape
            /\ Len(c.out.px) = c.shape[1] * c.shape[2]
            /\ \A r \in 0..(c.shape[1] - 1), k \in 0..(c.shape[2] - 1) :
                   /\ At(c.out, r, k) =
                        (IF InRect(c.shape, c.rect, r, k) = c.use_inner THEN 1 ELSE 0)
                   /\ At(c.out, r, k) + At(other, r, k) = 1

\* an outer mask of 2 x 2 whose rectangle covers the first cell only
C15_Witness ==
    /\ MaskCalled
    /\ Val(call).shape = <<2, 2>>
    /\ Val(call).rect = DefaultRect
    /\ ~Val(call).use_inner
    /\ Val(call).out.px = <<0, 1, 1, 1>>

\* C16: for coordinates in [0, 1] given in either order, each coordinate is
\* converted to floor(coord * dimension) and the bounds the mask is sliced
\* with satisfy 0 <= x0 <= x1 <= w and 0 <= y0 <= y1 <= h; the inner mask
\* has one cell set for every cell between those bounds.
C16_RegionBounds ==
    MaskCalled =>
        LET c == Val(call)
            h == c.shape[1]
            w == c.shape[2]
            b == region_bounds(c.shape, c.rect)
            floors(coord, dim) ==
                /\ 100 * PixelOf(coord, dim) <= coord * dim
                /\ coord * dim < 100 * (PixelOf(coord, dim) + 1)
            inner == create_region_mask(c.shape, c.rect, TRUE)
        IN  /\ floors(c.rect.x0, w) /\ floors(c.rect.x1, w)
            /\ floors(c.rect.y0, h) /\ floors(c.rect.y1, h)
            /\ {b[1], b[2]} = {PixelOf(c.rect.x0, w), PixelOf(c.rect.x1, w)}
            /\ {b[3], b[4]} = {PixelOf(c.rect.y0, h), PixelOf(c.rect.y1, h)}
            /\ 0 <= b[1] /\ b[1] <= b[2] /\ b[2] <= w
            /\ 0 <= b[3] /\ b[3] <= b[4] /\ b[4] <= h
            /\ SumSeq(inner.px) = (b[2] - b[1]) * (b[4] - b[3])

\* a rectangle given with both pairs of coordinates in descending order
C16_Witness ==
    /\ MaskCalled
    /\ Val(call).shape = <<2, 2>>
    /\ Val(call).rect = [x0 |-> 100, y0 |-> 65, x1 |-> 0, y1 |-> 35]
    /\ Val(call).use_inner
    /\ Val(call).out.px = <<1, 1, 0, 0>>

\* the blended spectrum of a mix call after its region was applied
MaskedSpectrum ==
    LET c == Val(call)
        m == mixed_fft(processors, c.weights, c.mode)
    IN  apply_region(Val(m.spectrum), Val(objects[processors[ValidFrom(processors, 1)[1]]].shape),
                     c.rect, c.use_inner)

FirstValid == processors[ValidFrom(processors, 1)[1]]

\* C19: an image returned by mix_components has the shape of the first
\* valid source and every value of it is in [0, 255], whatever the weights,
\* the mode and the region.
C19_ResultShapeAndRange ==
    (MixCalled /\ Val(call).out.kind = "value" /\ ~IsNone(Val(call).out.val))
    => LET img == Val(Val(call).out.val)
       IN  /\ ShapeOf(img) = Val(objects[FirstValid].shape)
           /\ ShapeOf(img) = ShapeOf(Val(objects[FirstValid].image))
           /\ Len(img.px) = img.h * img.w
           /\ \A i \in 1..Len(img.px) : img.px[i] \in 0..255

\* a 2 x 2 source mixed with a 1 x 2 source listed after it, through the
\* outer region
C19_Witness ==
    /\ MixCalled
    /\ objects[processors[1]].image = Some(ImgA)
    /\ objects[processors[2]].image = Some(ImgB)
    /\ Val(call).weights = <<1, 2, 1, 1>>
    /\ Val(call).rect = Some(DefaultRect)
    /\ ~Val(call).use_inner
    /\ Val(call).out.kind = "value"
    /\ ~IsNone(Val(call).out.val)
    /\ ShapeOf(Val(Val(call).out.val)) = <<2, 2>>

\* C20: a single loaded source mixed with weight 1 and no region, in either
\* mode, comes back with every pixel within 1 of the source's.
C20_RoundTrip ==
    (/\ MixCalled
     /\ Cardinality(ValidSources) = 1
     /\ \A i \in ValidSources : Val(call).weights[i] = 1
     /\ IsNone(Val(call).rect))
    => LET src == Val(objects[FirstValid].image)
           out == Val(call).out
       IN  /\ out.kind = "value"
           /\ ~IsNone(out.val)
           /\ ShapeOf(Val(out.val)) = ShapeOf(src)
           /\ \A i \in 1..Len(src.px) : Abs(Val(out.val).px[i] - src.px[i]) <= 1

\* the 2 x 2 source alone, mixed by magnitude and phase
C20_Witness ==
    /\ MixCalled
    /\ ValidSources = {2}
    /\ objects[processors[2]].image = Some(ImgA)
    /\ Val(call).weights[2] = 1
    /\ Val(call).mode = "mag_phase"
    /\ IsNone(Val(call).rect)
    /\ ~IsNone(Val(call).out.val)

C24_MixReadOnly ==
    [][(IsNone(call) /\ ~IsNone(call') /\ Val(call').fn = "mix_components")
       => /\ cancel_flag' = cancel_flag
          /\ \A o \in ObjIds :
                /\ objects'[o].image = objects[o].image
                /\ objects'[o].shape = objects[o].shape
                /\ \/ objects'[o].fft_result = objects[o].fft_result
                   \/ /\ IsNone(objects[o].fft_result)
                      /\ objects'[o].fft_result
                           = Some(fftshift_fft2(Val(objects[o].image)))
      ]_vars

\* a call cancelled at the first test although a source holds an image
C24_Witness ==
    /\ MixCalled
    /\ is_set(cancel_flag)
    /\ ValidSources # {}
    /\ Val(call).out.kind = "value"
    /\ IsNone(Val(call).out.val)

(***************************************************************************)
(* Claims settled under SpecMix64                                          *)
(***************************************************************************)
Scales64 == {2, 10}

\* C14: multiplying every weight of a mix by the same positive factor gives
\* the identical blended spectrum and the identical output image.
C14_ScaleInvariant ==
    MixCalled =>
        \A k \in Scales64 :
            LET scaled == [i \in 1..NumInputs |-> k * Val(call).weights[i]]
            IN  /\ mixed_fft64(processors, scaled)
                     = mixed_fft64(processors, Val(call).weights)
                /\ mix_components64(processors, scaled) = Val(call).out

(***************************************************************************)
(* Claims settled under SpecProc                                           *)
(***************************************************************************)
\* the cached transform is the transform of the image the object holds
TransformOfImage(p) ==
    \/ IsNone(p.fft_result)
    \/ /\ ~IsNone(p.image)
       /\ Size(Val(p.image)) > 0
       /\ Val(p.fft_result) = fftshift_fft2(Val(p.image))

ShapeOfImage(p) == ~IsNone(p.image) => p.shape = Some(ShapeOf(Val(p.image)))

\* C8: after any sequence of calls fft_result is absent or the transform of
\* the current image, shape is the current image's shape, and a successful
\* load or resize leaves fft_result absent.
C8_CacheCoherence ==
    /\ TransformOfImage(ip)
    /\ ShapeOfImage(ip)
    /\ (op \in LoadOps /\ ret.kind = "value" => IsNone(ip.fft_result))

\* C9: a load_image, load_from_array or resize_to call that fails (raises, or
\* returns None) leaves image, shape and fft_result exactly as they were.
C9_FailedLoadLeavesState ==
    (op \in LoadOps /\ ret.kind \in {"raise", "none"}) => ip = pre

\* C10: a compute_fft / get_* call leaves image and shape alone, leaves a
\* cached transform alone, caches the transform it hands out, and hands out
\* the same transform as the compute_fft / get_* call right before it.
C10_TransformCachedOnce ==
    [][op' \in ReadOps =>
         /\ ip'.image = ip.image
         /\ ip'.shape = ip.shape
         /\ (~IsNone(ip.fft_result) => ip'.fft_result = ip.fft_result)
         /\ (ret'.kind = "value" => ip'.fft_result = fft_data')
         /\ (op \in ReadOps => fft_data' = fft_data /\ ret'.kind = ret.kind)
         /\ (ret'.kind = "value" /\ op' # "compute_fft"
               => ret'.val = Some(Component(Val(fft_data'), op')))
      ]_procVars

\* three reads in a row of ImgA's transform, the last through get_phase
C10_Witness ==
    /\ streak = MaxStreak
    /\ op = "get_phase"
    /\ ret.kind = "value"
    /\ fft_data = Some(fftshift_fft2(ImgA))
    /\ ip.image = Some(ImgA)

C28_NoLostInvalidation ==
    (/\ race.reader.pc = "idle"
     /\ race.writer.pc = "idle"
     /\ ~IsNone(ip.image))
    => \/ IsNone(ip.fft_result)
       \/ ip.fft_result = Some(fftshift_fft2(Val(ip.image)))

====
